---- MODULE Spec2Model ----
(***************************************************************************)
(* Event broadcast and subscriber management of backend/app.py:            *)
(* the process-wide set `subscribers`, broadcast_event (the fan-out), and  *)
(* sse_events with its generator stream() (one per stream connection).     *)
(*                                                                         *)
(* Each stream connection owns one queue.Queue; a channel id stands for    *)
(* that queue object.  Request handlers run on their own threads, so the   *)
(* steps of broadcast_event and of the generators interleave.              *)
(*                                                                         *)
(* The callers of broadcast_event are modelled too: TwilioClientManager,   *)
(* create_outbound_call, the carrier webhooks inbound_a, inbound_b and     *)
(* status_callback, each as the function of its input and of the carrier's *)
(* answers that the code computes.                                         *)
(***************************************************************************)
EXTENDS Integers, Sequences, FiniteSets, TLC

\* Queue objects the model names (one per stream connection).
NumChannels == 3
\* Stream connections a run of Spec opens, each creating a fresh queue.Queue.
MaxConn == 2
\* Request threads that call broadcast_event concurrently.
NumThreads == 2
\* broadcast_event calls one thread issues, one after the other.
MaxPub == 2
\* broadcast_event calls issued over a run of Spec, all threads together.
MaxCalls == 3
\* The same for a run of LiveSpec.
LiveCalls == 2
\* The same for a run of FailSpec.
FailCalls == 2

Channels == 1..NumChannels
Threads == 1..NumThreads
\* An event is identified by its publishing thread and its rank in that thread.
Events == 1..(NumThreads * MaxPub)
EventId(t, k) == (t - 1) * MaxPub + k
ThreadOf(e) == ((e - 1) \div MaxPub) + 1
RankOf(e) == ((e - 1) % MaxPub) + 1

\* The item stream() yields first: {'event': 'connected', 'payload': {}}.
Connected == 0

VARIABLES
  subscribers,  \* the module-level set of queues
  q,            \* q[c]: contents of the queue of channel c, head first
  pc,           \* pc[c]: where the handler of connection c stands
  conn,         \* conn[c]: "none" | "open" | "closed", the remote side
  out,          \* out[c]: the items stream() of c has yielded, in order
  tpc,          \* tpc[t]: where thread t stands in broadcast_event
  tsnap,        \* tsnap[t]: queues of list(subscribers) not yet iterated
  tcount,       \* tcount[t]: broadcast_event calls thread t has completed
  traised,      \* traised[t]: an exception left broadcast_event in thread t
  budget,       \* broadcast_event calls the environment may still issue
  pub,          \* pub[e]: what held when the call publishing e began and
                \*   when it copied the set (history, read by no action)
  probe,        \* the repeated-discard experiment of DiscardSpec
  failed,       \* <<e, c>>: the put of event e on channel c raised
  twilio_manager, \* the TwilioClientManager instance: which clients it
                \*   built, and its current_method
  environ,      \* which of TWILIO_NUMBER_A / TWILIO_NUMBER_B are configured
  log,          \* the data objects the request handlers have published
  last,         \* the request handled last: its input and its response
  nreq          \* requests handled so far

webVars == <<twilio_manager, environ, log, last, nreq>>

vars == <<subscribers, q, pc, conn, out, tpc, tsnap, tcount, traised,
          budget, pub, probe, failed, webVars>>

handlerVars == <<pc, conn, out>>
threadVars == <<tpc, tsnap, tcount, traised, budget>>

----------------------------------------------------------------------------
(* TwilioClientManager *)

\* Requests a run of WebSpec handles.
MaxReq == 2
\* Answers of the carrier one request may consume (accounts.fetch and
\* calls.create together).
MaxCarrierCalls == 4

\* What a call of the carrier's API does: it returns, it raises
\* TwilioRestException with code 20003, or it raises anything else.
Outcomes == {"ok", "auth", "error"}

RECURSIVE SeqsUpTo(_, _)
SeqsUpTo(S, n) ==
  IF n = 0 THEN {<<>>}
  ELSE LET shorter == SeqsUpTo(S, n - 1)
       IN  shorter \cup {Append(s, x) : s \in {r \in shorter : Len(r) = n - 1},
                                        x \in S}

\* The answers the carrier gives to the successive API calls of one request.
CarrierAnswers == {s \in SeqsUpTo(Outcomes, MaxCarrierCalls) :
                     Len(s) = MaxCarrierCalls}

\* __init__ and _initialize_clients: auth says that TWILIO_ACCOUNT_SID and
\* TWILIO_AUTH_TOKEN are set, key that the SID and both API key values are.
initialize_clients(auth, key) ==
  [primary_client |-> auth,
   fallback_client |-> key,
   current_method |-> IF auth THEN "auth_token"
                      ELSE IF key THEN "api_key" ELSE "none"]

\* return self.primary_client or self.fallback_client
get_client(m) ==
  IF m.primary_client THEN "primary"
  ELSE IF m.fallback_client THEN "fallback" ELSE "none"

get_auth_method(m) ==
  IF m.primary_client THEN "auth_token"
  ELSE IF m.fallback_client THEN "api_key" ELSE "none"

\* Faulty variant: the switch is logged and current_method keeps its value.
switch_logged_only(m) == m

\* self.current_method = "api_key"
switch_to_api_key(m) == [m EXCEPT !.current_method = "api_key"]

\* test_connection with the carrier answering answers[1], answers[2], ... to
\* the successive fetches.  The result: ok, the manager afterwards, the
\* answers left, the clients the fetches went through, and how many times the
\* function called itself (cut: the answers ran out while it still recursed)
\* and how many fetches were rejected with code 20003.
RECURSIVE test_connection(_, _)
test_connection(m, answers) ==
  LET client == get_client(m)
      none == [ok |-> FALSE, mgr |-> m, rest |-> answers, used |-> <<>>,
               recursed |-> 0, rejected |-> 0, cut |-> FALSE]
  IN  IF client = "none" THEN none
      ELSE IF answers = <<>> THEN [none EXCEPT !.cut = TRUE]
      ELSE LET a == Head(answers)
               fetched == [none EXCEPT !.rest = Tail(answers),
                                       !.used = <<client>>]
           IN  IF a = "ok" THEN [fetched EXCEPT !.ok = TRUE]
               ELSE IF a # "auth" THEN fetched
               ELSE IF /\ a = "auth"
                       /\ m.primary_client
                       /\ m.fallback_client
                       /\ m.current_method = "auth_token"
                 THEN LET r == test_connection(switch_to_api_key(m),
                                               Tail(answers))
                      IN  [r EXCEPT !.used = <<client>> \o @,
                                    !.recursed = @ + 1,
                                    !.rejected = @ + 1]
                 ELSE [fetched EXCEPT !.rejected = 1]

\* str.strip() on the strings the model passes: the blank one becomes empty.
strip(s) == IF s = " " THEN "" ELSE s

\* x or y, for strings: the empty string is false.
Or(x, y) == IF x # "" THEN x ELSE y

\* The sid of the call the carrier has created.
NewSid == "CA-out"

\* Faulty variant: the event is published before calls.create is called.
announced_before_create(answer, data) == <<data>>

\* The broadcast_event call of create_outbound_call stands after
\* client.calls.create inside the try: it runs only when create returned.
announced(answer, data) == IF answer = "ok" THEN <<data>> ELSE <<>>

\* create_outbound_call for the JSON body `body`, the carrier answering
\* answers[1], answers[2], ... to the API calls the request makes.  The
\* result: the HTTP status, the events published in order, the manager
\* afterwards, the clients the API calls went through, how many calls.create
\* returned, how many times the function and test_connection called
\* themselves, and how many API calls were rejected with code 20003.
RECURSIVE create_outbound_call(_, _, _, _)
create_outbound_call(m, env, body, answers) ==
  LET t == test_connection(m, answers)
      client == get_client(t.mgr)
      customer_number == strip(Or(body.customer_number, ""))
      agent_number == strip(Or(body.agent_number, env.TWILIO_NUMBER_B))
      data == [event |-> "call_initiated",
               payload |-> [to |-> agent_number,
                            customer |-> customer_number,
                            sid |-> NewSid,
                            auth_method |-> get_auth_method(t.mgr)]]
      tested == [status |-> 500, events |-> <<>>, mgr |-> t.mgr,
                 used |-> t.used, placed |-> 0, recursed |-> 0,
                 trecursed |-> t.recursed, cut |-> t.cut,
                 rejected |-> t.rejected]
  IN  IF ~t.ok THEN tested
      ELSE IF client = "none" THEN [tested EXCEPT !.status = 400]
      ELSE IF customer_number = "" THEN [tested EXCEPT !.status = 400]
      ELSE IF agent_number = "" THEN [tested EXCEPT !.status = 400]
      ELSE IF env.TWILIO_NUMBER_A = "" THEN [tested EXCEPT !.status = 400]
      ELSE IF t.rest = <<>> THEN [tested EXCEPT !.cut = TRUE]
      ELSE
        LET a == Head(t.rest)
            called == [tested EXCEPT !.used = @ \o <<client>>,
                                     !.events = announced(a, data)]
        IN  IF a = "ok" THEN [called EXCEPT !.status = 200, !.placed = 1]
            ELSE IF /\ a = "auth"
                    /\ t.mgr.fallback_client
                    /\ t.mgr.current_method = "auth_token"
              THEN LET r == create_outbound_call(switch_to_api_key(t.mgr),
                                                 env, body, Tail(t.rest))
                   IN  [r EXCEPT !.used = called.used \o @,
                                 !.events = called.events \o @,
                                 !.recursed = @ + 1,
                                 !.trecursed = IF @ > t.recursed
                                                 THEN @ ELSE t.recursed,
                                 !.rejected = @ + called.rejected + 1]
              ELSE [called EXCEPT !.rejected =
                                    @ + (IF a = "auth" THEN 1 ELSE 0)]

\* The event thread t is publishing, or will publish next.
Current(t) == EventId(t, tcount[t] + 1)

\* How far the publish of event e has got.
Phase(e) ==
  LET t == ThreadOf(e)
      k == RankOf(e)
  IN  IF k <= tcount[t] THEN "done"
      ELSE IF k = tcount[t] + 1 /\ tpc[t] = "snap" THEN "started"
      ELSE IF k = tcount[t] + 1 /\ tpc[t] = "loop" THEN "snapped"
      ELSE "none"

\* Connections opened so far (they are opened in the order of their ids).
Registered == {c \in Channels : pc[c] # "new"}

NoPub == [in |-> {}, nreg |-> 0, nsnap |-> 0, hb |-> {}]
NoProbe == [step |-> 0, chan |-> 0, after |-> {}, raised |-> FALSE]

NoRequest == [handler |-> "none"]

\* The values of TWILIO_NUMBER_A and TWILIO_NUMBER_B when they are set.
NumberA == "+1A"
NumberB == "+1B"

\* No request thread is inside broadcast_event; calls more may be issued.
PublishersIdle(calls) ==
  /\ tpc = [t \in Threads |-> "idle"]
  /\ tsnap = [t \in Threads |-> {}]
  /\ tcount = [t \in Threads |-> 0]
  /\ traised = [t \in Threads |-> FALSE]
  /\ budget = calls
  /\ pub = [e \in Events |-> NoPub]
  /\ probe = NoProbe
  /\ failed = {}

\* Module load with every variable of the environment set; no request yet.
WebIdle ==
  /\ twilio_manager = initialize_clients(TRUE, TRUE)
  /\ environ = [TWILIO_NUMBER_A |-> NumberA, TWILIO_NUMBER_B |-> NumberB]
  /\ log = <<>>
  /\ last = NoRequest
  /\ nreq = 0

ThreadsIdle(calls) == PublishersIdle(calls) /\ WebIdle

\* Module load: subscribers = set(), no connection, no request in progress.
Init ==
  /\ subscribers = {}
  /\ q = [c \in Channels |-> <<>>]
  /\ pc = [c \in Channels |-> "new"]
  /\ conn = [c \in Channels |-> "none"]
  /\ out = [c \in Channels |-> <<>>]
  /\ ThreadsIdle(MaxCalls)

----------------------------------------------------------------------------
(* queue.Queue and set operations, as the code uses them *)

\* Faulty variant: the queue was built as queue.Queue(maxsize=1), so a put on a queue
\* that holds an item raises Full.
put_nowait_bounded(items, data) ==
  IF Len(items) >= 1 THEN [items |-> items, raised |-> TRUE]
  ELSE [items |-> Append(items, data), raised |-> FALSE]

\* q.put_nowait(data) on queue.Queue() (maxsize 0, never Full): append at
\* the tail.
put_nowait(items, data) == [items |-> Append(items, data), raised |-> FALSE]

\* Faulty variant: the queue was built as queue.LifoQueue(), get takes the newest item.
get_lifo(items) ==
  [data |-> items[Len(items)], rest |-> SubSeq(items, 1, Len(items) - 1)]

\* q.get(): the head of a non-empty queue, and what is left.
get(items) == [data |-> Head(items), rest |-> Tail(items)]

\* Faulty variant: the copy misses a member (an iteration over a set being resized).
list_skipping(S) ==
  IF S = {} THEN {} ELSE S \ {CHOOSE c \in S : \A d \in S : d <= c}

\* list(subscribers): the members of the set at the moment of the call.
list(S) == S

\* subscribers.add(q)
add(S, c) == S \cup {c}

\* Faulty variant: subscribers.remove(q), which raises KeyError for an absent member.
remove(S, c) == [set |-> S \ {c}, raised |-> c \notin S]

\* subscribers.discard(q): the set without q; never raises.
discard(S, c) == [set |-> S \ {c}, raised |-> FALSE]

----------------------------------------------------------------------------
(* sse_events and its generator stream() *)

\* Faulty variant: the hello item is also put on the new queue at registration.
sse_events_queues_hello(c) ==
  /\ pc[c] = "new"
  /\ c <= MaxConn
  /\ \A d \in Channels : d < c => pc[d] # "new"
  /\ q' = [q EXCEPT ![c] = <<Connected>>]
  /\ subscribers' = add(subscribers, c)
  /\ pc' = [pc EXCEPT ![c] = "reg"]
  /\ conn' = [conn EXCEPT ![c] = "open"]
  /\ UNCHANGED <<out, threadVars, pub, probe, failed, webVars>>

\* sse_events: q = queue.Queue(); subscribers.add(q); return Response(stream()).
\* The generator object exists and has not run a line yet.
sse_events(c) ==
  /\ pc[c] = "new"
  /\ c <= MaxConn
  /\ \A d \in Channels : d < c => pc[d] # "new"
  /\ q' = [q EXCEPT ![c] = <<>>]
  /\ subscribers' = add(subscribers, c)
  /\ pc' = [pc EXCEPT ![c] = "reg"]
  /\ conn' = [conn EXCEPT ![c] = "open"]
  /\ UNCHANGED <<out, threadVars, pub, probe, failed, webVars>>

\* Faulty variant: stream() goes straight to its loop, without the hello item.
StreamNoHello(c) ==
  /\ pc[c] = "reg"
  /\ pc' = [pc EXCEPT ![c] = "yield"]
  /\ UNCHANGED <<subscribers, q, conn, out, threadVars, pub, probe, failed, webVars>>

\* The server's first next(): stream() runs to its first yield, the hello item.
StreamHello(c) ==
  /\ pc[c] = "reg"
  /\ out' = [out EXCEPT ![c] = Append(@, Connected)]
  /\ pc' = [pc EXCEPT ![c] = "yield"]
  /\ UNCHANGED <<subscribers, q, conn, threadVars, pub, probe, failed, webVars>>

\* The response ends before the generator was ever started (a HEAD request,
\* or the connection lost before the first iteration): close() of a generator
\* that has not started runs none of its body, so not its finally either.
CloseUnstarted(c) ==
  /\ pc[c] = "reg"
  /\ pc' = [pc EXCEPT ![c] = "done"]
  /\ conn' = [conn EXCEPT ![c] = "closed"]
  /\ UNCHANGED <<subscribers, q, out, threadVars, pub, probe, failed, webVars>>

\* The remote side goes away; the server learns of it only by a failed write.
Disconnect(c) ==
  /\ conn[c] = "open"
  /\ pc[c] \in {"yield", "get"}
  /\ conn' = [conn EXCEPT ![c] = "closed"]
  /\ UNCHANGED <<subscribers, q, pc, out, threadVars, pub, probe, failed, webVars>>

\* The yielded item was written; next() resumes stream() at `data = q.get()`:
\* with an item queued it is taken and yielded, else the thread blocks in get.
Resume(c) ==
  /\ pc[c] = "yield"
  /\ conn[c] = "open"
  /\ IF q[c] # <<>>
       THEN /\ out' = [out EXCEPT ![c] = Append(@, get(q[c]).data)]
            /\ q' = [q EXCEPT ![c] = get(q[c]).rest]
            /\ pc' = pc
       ELSE /\ pc' = [pc EXCEPT ![c] = "get"]
            /\ UNCHANGED <<q, out>>
  /\ UNCHANGED <<subscribers, conn, threadVars, pub, probe, failed, webVars>>

\* Faulty variant: the item taken by the woken get() is not yielded; the loop goes
\* round to the next get().
WakeDrops(c) ==
  /\ pc[c] = "get"
  /\ q[c] # <<>>
  /\ q' = [q EXCEPT ![c] = get(q[c]).rest]
  /\ UNCHANGED <<subscribers, handlerVars, threadVars, pub, probe, failed, webVars>>

\* A thread blocked in q.get() is woken by an item: it takes and yields it.
Wake(c) ==
  /\ pc[c] = "get"
  /\ q[c] # <<>>
  /\ out' = [out EXCEPT ![c] = Append(@, get(q[c]).data)]
  /\ q' = [q EXCEPT ![c] = get(q[c]).rest]
  /\ pc' = [pc EXCEPT ![c] = "yield"]
  /\ UNCHANGED <<subscribers, conn, threadVars, pub, probe, failed, webVars>>

\* The server closes the generator suspended at a yield (write failure, remote
\* disconnect noticed on write, shutdown): GeneratorExit, then the finally.
CloseStream(c) ==
  /\ pc[c] = "yield"
  /\ subscribers' = discard(subscribers, c).set
  /\ pc' = [pc EXCEPT ![c] = "done"]
  /\ conn' = [conn EXCEPT ![c] = "closed"]
  /\ UNCHANGED <<q, out, threadVars, pub, probe, failed, webVars>>

----------------------------------------------------------------------------
(* broadcast_event, one step per shared-state access *)

\* The call begins: data = {"event": event_type, "payload": payload}.
\* (Threads are interchangeable: thread t issues its first call only after
\* the threads before it have issued theirs.)
BroadcastStart(t) ==
  /\ tpc[t] = "idle"
  /\ tcount[t] < MaxPub
  /\ budget > 0
  /\ \A u \in Threads : u < t => (tcount[u] > 0 \/ tpc[u] # "idle")
  /\ tpc' = [tpc EXCEPT ![t] = "snap"]
  /\ budget' = budget - 1
  /\ pub' = [pub EXCEPT ![Current(t)] =
               [in |-> subscribers,
                nreg |-> Cardinality(Registered),
                nsnap |-> 0,
                hb |-> {e \in Events : Phase(e) = "done"}]]
  /\ UNCHANGED <<subscribers, q, handlerVars, tsnap, tcount, traised, probe, failed, webVars>>

\* Faulty variant: the loop runs over every queue ever added, removed ones included.
SnapshotAllAdded(t) ==
  /\ tpc[t] = "snap"
  /\ tsnap' = [tsnap EXCEPT ![t] = Registered]
  /\ pub' = [pub EXCEPT ![Current(t)].nsnap = Cardinality(Registered)]
  /\ IF Registered = {}
       THEN /\ tpc' = [tpc EXCEPT ![t] = "idle"]
            /\ tcount' = [tcount EXCEPT ![t] = @ + 1]
       ELSE /\ tpc' = [tpc EXCEPT ![t] = "loop"]
            /\ tcount' = tcount
  /\ UNCHANGED <<subscribers, q, handlerVars, traised, budget, probe, failed, webVars>>

\* for q in list(subscribers): the copy is taken in one step; over an empty
\* copy the loop body never runs and the call returns.
Snapshot(t) ==
  /\ tpc[t] = "snap"
  /\ tsnap' = [tsnap EXCEPT ![t] = list(subscribers)]
  /\ pub' = [pub EXCEPT ![Current(t)].nsnap = Cardinality(Registered)]
  /\ IF list(subscribers) = {}
       THEN /\ tpc' = [tpc EXCEPT ![t] = "idle"]
            /\ tcount' = [tcount EXCEPT ![t] = @ + 1]
       ELSE /\ tpc' = [tpc EXCEPT ![t] = "loop"]
            /\ tcount' = tcount
  /\ UNCHANGED <<subscribers, q, handlerVars, traised, budget, probe, failed, webVars>>

\* Faulty variant: the loop drops from the set a queue whose handler has ended.
PutPruning(t, c) ==
  /\ tpc[t] = "loop"
  /\ c \in tsnap[t]
  /\ q' = [q EXCEPT ![c] = Append(@, Current(t))]
  /\ subscribers' = IF pc[c] = "done" THEN subscribers \ {c} ELSE subscribers
  /\ tsnap' = [tsnap EXCEPT ![t] = @ \ {c}]
  /\ IF tsnap[t] = {c}
       THEN /\ tpc' = [tpc EXCEPT ![t] = "idle"]
            /\ tcount' = [tcount EXCEPT ![t] = @ + 1]
       ELSE UNCHANGED <<tpc, tcount>>
  /\ UNCHANGED <<handlerVars, traised, budget, pub, probe, failed, webVars>>

\* Faulty variant: q.put(data) on a queue built as queue.Queue(maxsize=1): the
\* put waits while the queue holds an item.
PutBlocking(t, c) ==
  /\ tpc[t] = "loop"
  /\ c \in tsnap[t]
  /\ Len(q[c]) < 1
  /\ q' = [q EXCEPT ![c] = Append(@, Current(t))]
  /\ tsnap' = [tsnap EXCEPT ![t] = @ \ {c}]
  /\ IF tsnap[t] = {c}
       THEN /\ tpc' = [tpc EXCEPT ![t] = "idle"]
            /\ tcount' = [tcount EXCEPT ![t] = @ + 1]
       ELSE UNCHANGED <<tpc, tcount>>
  /\ UNCHANGED <<subscribers, handlerVars, traised, budget, pub, probe, failed,
                 webVars>>

\* One iteration of the loop: q.put_nowait(data) on the next queue of the copy
\* (a set lists its members in no particular order); an exception of the put
\* is swallowed.  After the last queue the call returns None.
Put(t, c) ==
  /\ tpc[t] = "loop"
  /\ c \in tsnap[t]
  /\ LET r == put_nowait(q[c], Current(t))
     IN  q' = IF r.raised THEN q ELSE [q EXCEPT ![c] = r.items]
  /\ tsnap' = [tsnap EXCEPT ![t] = @ \ {c}]
  /\ IF tsnap[t] = {c}
       THEN /\ tpc' = [tpc EXCEPT ![t] = "idle"]
            /\ tcount' = [tcount EXCEPT ![t] = @ + 1]
       ELSE UNCHANGED <<tpc, tcount>>
  /\ UNCHANGED <<subscribers, handlerVars, traised, budget, pub, probe, failed, webVars>>

----------------------------------------------------------------------------

Handler(c) ==
  \/ sse_events(c)
  \/ StreamHello(c)
  \/ CloseUnstarted(c)
  \/ Disconnect(c)
  \/ Resume(c)
  \/ Wake(c)
  \/ CloseStream(c)

broadcast_event(t) ==
  \/ BroadcastStart(t)
  \/ Snapshot(t)
  \/ \E c \in Channels : Put(t, c)

Next ==
  \/ \E c \in Channels : Handler(c)
  \/ \E t \in Threads : broadcast_event(t)

Spec == Init /\ [][Next]_vars

\* Scheduling: the server thread of a connection keeps driving its generator
\* (the first next(), the next() after each written item, the wake-up of a
\* get() once an item is queued), a write to a connection the remote side has
\* left fails and closes the generator, and a thread inside broadcast_event
\* runs to its end.  New connections, disconnections and new publishes are
\* the environment's and get no fairness.
WriteFail(c) == conn[c] = "closed" /\ CloseStream(c)

Fairness ==
  /\ \A c \in Channels :
       /\ WF_vars(StreamHello(c))
       /\ WF_vars(Resume(c))
       /\ WF_vars(Wake(c))
       /\ WF_vars(WriteFail(c))
  /\ \A t \in Threads :
       /\ WF_vars(Snapshot(t))
       /\ WF_vars(\E c \in Channels : Put(t, c))

LiveInit ==
  /\ subscribers = {}
  /\ q = [c \in Channels |-> <<>>]
  /\ pc = [c \in Channels |-> "new"]
  /\ conn = [c \in Channels |-> "none"]
  /\ out = [c \in Channels |-> <<>>]
  /\ ThreadsIdle(LiveCalls)

LiveSpec == LiveInit /\ [][Next]_vars /\ Fairness

\* Scheduling of the publishers alone: a thread inside broadcast_event keeps
\* running, and nothing is assumed of the stream handlers, which may stop
\* dequeuing at any point.
PublisherFairness ==
  \A t \in Threads :
    /\ WF_vars(Snapshot(t))
    /\ WF_vars(\E c \in Channels : Put(t, c))

PublishSpec == LiveInit /\ [][Next]_vars /\ PublisherFairness

\* The fan-out alone: every channel is registered, its hello item written and
\* its handler blocked in q.get(); no connection opens or closes while the
\* threads publish MaxPub events each.
FanoutInit ==
  /\ subscribers = Channels
  /\ q = [c \in Channels |-> <<>>]
  /\ pc = [c \in Channels |-> "get"]
  /\ conn = [c \in Channels |-> "open"]
  /\ out = [c \in Channels |-> <<Connected>>]
  /\ ThreadsIdle(NumThreads * MaxPub)

FanoutNext ==
  \/ \E c \in Channels : Resume(c) \/ Wake(c)
  \/ \E t \in Threads : broadcast_event(t)

FanoutSpec == FanoutInit /\ [][FanoutNext]_vars

\* Faulty variant: no try/except around the put; the exception ends the loop and
\* leaves broadcast_event.
PutFailsUncaught(t, c) ==
  /\ tpc[t] = "loop"
  /\ c \in tsnap[t]
  /\ failed' = failed \cup {<<Current(t), c>>}
  /\ tsnap' = [tsnap EXCEPT ![t] = {}]
  /\ traised' = [traised EXCEPT ![t] = TRUE]
  /\ tpc' = [tpc EXCEPT ![t] = "idle"]
  /\ tcount' = [tcount EXCEPT ![t] = @ + 1]
  /\ UNCHANGED <<subscribers, q, handlerVars, budget, pub, probe, webVars>>

\* One iteration of the loop in which q.put_nowait(data) raises (whatever the
\* exception, a MemoryError for one): `except Exception: pass` swallows it,
\* the queue is left as it was and the loop goes on to the next queue.
PutFails(t, c) ==
  /\ tpc[t] = "loop"
  /\ c \in tsnap[t]
  /\ failed' = failed \cup {<<Current(t), c>>}
  /\ tsnap' = [tsnap EXCEPT ![t] = @ \ {c}]
  /\ IF tsnap[t] = {c}
       THEN /\ tpc' = [tpc EXCEPT ![t] = "idle"]
            /\ tcount' = [tcount EXCEPT ![t] = @ + 1]
       ELSE UNCHANGED <<tpc, tcount>>
  /\ UNCHANGED <<subscribers, q, handlerVars, traised, budget, pub, probe,
                 webVars>>

\* The fan-out with puts that may fail: every channel is registered and its
\* handler blocked in q.get(), and any put of any publish may raise.
FailInit ==
  /\ subscribers = Channels
  /\ q = [c \in Channels |-> <<>>]
  /\ pc = [c \in Channels |-> "get"]
  /\ conn = [c \in Channels |-> "open"]
  /\ out = [c \in Channels |-> <<Connected>>]
  /\ ThreadsIdle(FailCalls)

FailNext ==
  \/ \E c \in Channels : Resume(c) \/ Wake(c)
  \/ \E t \in Threads : broadcast_event(t)
  \/ \E t \in Threads, c \in Channels : PutFails(t, c)

FailSpec == FailInit /\ [][FailNext]_vars

\* subscribers.discard(q) applied to a registry state, and then once more to
\* the same queue: every connection has been opened and each handler either
\* runs (suspended at a yield or blocked in get, its queue in the set) or has
\* ended and removed its queue.
DiscardInit ==
  /\ pc \in [Channels -> {"yield", "get", "done"}]
  /\ subscribers = {c \in Channels : pc[c] # "done"}
  /\ conn = [c \in Channels |-> IF pc[c] = "done" THEN "closed" ELSE "open"]
  /\ q = [c \in Channels |-> <<>>]
  /\ out = [c \in Channels |-> <<Connected>>]
  /\ ThreadsIdle(0)

DiscardOnce(c) ==
  /\ probe.step = 0
  /\ LET r == discard(subscribers, c)
     IN  /\ subscribers' = r.set
         /\ probe' = [step |-> 1, chan |-> c, after |-> r.set,
                      raised |-> r.raised]
  /\ UNCHANGED <<q, handlerVars, threadVars, pub, failed, webVars>>

DiscardAgain ==
  /\ probe.step = 1
  /\ LET r == discard(subscribers, probe.chan)
     IN  /\ subscribers' = r.set
         /\ probe' = [probe EXCEPT !.step = 2, !.raised = @ \/ r.raised]
  /\ UNCHANGED <<q, handlerVars, threadVars, pub, failed, webVars>>

DiscardNext ==
  \/ \E c \in Channels : DiscardOnce(c)
  \/ DiscardAgain

DiscardSpec == DiscardInit /\ [][DiscardNext]_vars

----------------------------------------------------------------------------
(* The request handlers that publish *)

\* The form of a carrier webhook request: any of its fields may be missing.
FormFields == {"CallSid", "CallStatus", "To", "From", "Timestamp"}
FormValue == [CallSid |-> "CA-in", CallStatus |-> "ringing", To |-> "+1to",
              From |-> "+1from", Timestamp |-> "t0"]
Forms == {[k \in S |-> FormValue[k]] :
            S \in {{}, {"CallSid"}, {"To", "From"}, FormFields}}

\* The JSON body of POST /api/call/connect.
Bodies == [customer_number : {"", " ", "+1cust"},
           agent_number : {"", "+1agent"}]

\* Python's None.
None == "None"

\* request.form.get(k, default)
form_get(form, k, default) == IF k \in DOMAIN form THEN form[k] ELSE default

\* The payload status_callback builds.
status_payload(form) ==
  [CallSid |-> form_get(form, "CallSid", None),
   CallStatus |-> form_get(form, "CallStatus", None),
   To |-> form_get(form, "To", None),
   From |-> form_get(form, "From", None),
   Timestamp |-> form_get(form, "Timestamp", None)]

\* Faulty variant: the caller and the called number change places.
incoming_swapped(form, which) ==
  [to |-> form_get(form, "From", ""),
   from |-> form_get(form, "To", ""),
   sid |-> form_get(form, "CallSid", ""),
   which |-> which]

\* The payload inbound_a and inbound_b build.
incoming_payload(form, which) ==
  [to |-> form_get(form, "To", ""),
   from |-> form_get(form, "From", ""),
   sid |-> form_get(form, "CallSid", ""),
   which |-> which]

\* TwiML verbs, and a VoiceResponse as the sequence of the verbs appended.
Dial(caller_id, number) ==
  [verb |-> "Dial", caller_id |-> caller_id, number |-> number]
Say(text) == [verb |-> "Say", text |-> text]
NoDestination == "No destination configured for this number."

\* inbound_a: the Dial is built and appended to the response.
inbound_a_response(env) ==
  IF env.TWILIO_NUMBER_B # ""
    THEN <<Dial(env.TWILIO_NUMBER_A, env.TWILIO_NUMBER_B)>>
    ELSE <<Say(NoDestination)>>

\* inbound_b: the Dial is built and never appended (no vr.append(dial)).
inbound_b_response(env) ==
  IF env.TWILIO_NUMBER_A # "" THEN <<>> ELSE <<Say(NoDestination)>>

\* broadcast_event called for each of evs in turn with no other thread in
\* between: the data object joins the log and is put on every queue of the
\* set.  A queue item is the position of its data object in the log.
Publish(evs) ==
  /\ log' = log \o evs
  /\ q' = [c \in Channels |->
             IF c \in list(subscribers)
               THEN q[c] \o [i \in 1..Len(evs) |-> Len(log) + i]
               ELSE q[c]]

Handled(record) ==
  /\ nreq < MaxReq
  /\ nreq' = nreq + 1
  /\ last' = record
  /\ UNCHANGED <<subscribers, handlerVars, threadVars, pub, probe, failed,
                 environ>>

\* GET /api/health and GET /api/twilio/status: test_connection and a report.
health(answerSets) ==
  \E answers \in answerSets :
    LET r == test_connection(twilio_manager, answers)
    IN  /\ twilio_manager' = r.mgr
        /\ Publish(<<>>)
        /\ Handled([handler |-> "health", first |-> Len(log), ok |-> r.ok,
                    used |-> r.used, recursed |-> 0,
                    trecursed |-> r.recursed, rejected |-> r.rejected,
                    cut |-> r.cut])

\* POST /api/call/connect
connect(bodies, answerSets) ==
  \E body \in bodies, answers \in answerSets :
    LET r == create_outbound_call(twilio_manager, environ, body, answers)
    IN  /\ twilio_manager' = r.mgr
        /\ Publish(r.events)
        /\ Handled([handler |-> "connect", first |-> Len(log),
                    status |-> r.status, placed |-> r.placed,
                    used |-> r.used, recursed |-> r.recursed,
                    trecursed |-> r.trecursed, rejected |-> r.rejected,
                    cut |-> r.cut])

\* POST /api/voice/incoming/a
inbound_a(forms) ==
  \E form \in forms :
    /\ Publish(<<[event |-> "incoming_call",
                  payload |-> incoming_payload(form, "A")]>>)
    /\ Handled([handler |-> "inbound_a", first |-> Len(log), form |-> form,
                response |-> inbound_a_response(environ)])
    /\ UNCHANGED twilio_manager

\* POST /api/voice/incoming/b
inbound_b(forms) ==
  \E form \in forms :
    /\ Publish(<<[event |-> "incoming_call",
                  payload |-> incoming_payload(form, "B")]>>)
    /\ Handled([handler |-> "inbound_b", first |-> Len(log), form |-> form,
                response |-> inbound_b_response(environ)])
    /\ UNCHANGED twilio_manager

\* POST /api/voice/status
status_callback(forms) ==
  \E form \in forms :
    /\ Publish(<<[event |-> "call_status",
                  payload |-> status_payload(form)]>>)
    /\ Handled([handler |-> "status_callback", first |-> Len(log),
                form |-> form, status |-> 204])
    /\ UNCHANGED twilio_manager

\* The request handlers under any configuration of the environment.  One
\* stream connection is open, its generator blocked in q.get(), and stays
\* open while requests are handled one at a time.
WebInit ==
  /\ subscribers = {1}
  /\ q = [c \in Channels |-> <<>>]
  /\ pc = [c \in Channels |-> IF c = 1 THEN "get" ELSE "new"]
  /\ conn = [c \in Channels |-> IF c = 1 THEN "open" ELSE "none"]
  /\ out = [c \in Channels |-> IF c = 1 THEN <<Connected>> ELSE <<>>]
  /\ PublishersIdle(0)
  /\ \E auth, key \in BOOLEAN : twilio_manager = initialize_clients(auth, key)
  /\ environ \in [TWILIO_NUMBER_A : {"", NumberA},
                  TWILIO_NUMBER_B : {"", NumberB}]
  /\ log = <<>>
  /\ last = NoRequest
  /\ nreq = 0

WebNext ==
  \/ \E c \in Channels : Resume(c) \/ Wake(c)
  \/ health(CarrierAnswers)
  \/ connect(Bodies, CarrierAnswers)
  \/ inbound_a(Forms)
  \/ inbound_b(Forms)
  \/ status_callback(Forms)

WebSpec == WebInit /\ [][WebNext]_vars

\* Stream connections from module load to their end, with every variable of
\* the environment set, while requests that publish are handled one at a
\* time: each request comes with a complete form or body, and the carrier
\* accepts every API call of a request or fails every one.
StreamForms == {[k \in FormFields |-> FormValue[k]]}
StreamBodies == {[customer_number |-> "+1cust", agent_number |-> ""]}
StreamAnswers == {[i \in 1..MaxCarrierCalls |-> a] : a \in {"ok", "error"}}

StreamInit ==
  /\ subscribers = {}
  /\ q = [c \in Channels |-> <<>>]
  /\ pc = [c \in Channels |-> "new"]
  /\ conn = [c \in Channels |-> "none"]
  /\ out = [c \in Channels |-> <<>>]
  /\ ThreadsIdle(0)

StreamNext ==
  \/ \E c \in Channels : Handler(c)
  \/ connect(StreamBodies, StreamAnswers)
  \/ inbound_a(StreamForms)
  \/ inbound_b(StreamForms)
  \/ status_callback(StreamForms)

StreamSpec == StreamInit /\ [][StreamNext]_vars

----------------------------------------------------------------------------
(* What a channel has carried *)

\* The events of channel c in the order it carries them: those its handler
\* has dequeued and yielded, then those still queued.
Hist(c) == SelectSeq(out[c], LAMBDA x : x # Connected) \o q[c]

Count(e, s) == Cardinality({i \in 1..Len(s) : s[i] = e})

Holds(c, e) == Count(e, Hist(c)) > 0

\* Channel c had been added and removed again when the publish of e began.
GoneAtStart(e, c) ==
  Phase(e) # "none" /\ c <= pub[e].nreg /\ c \notin pub[e].in

\* Channel c was in the set when the publish of e began and still is.
InThroughout(e, c) == c \in pub[e].in /\ c \in subscribers

----------------------------------------------------------------------------
(* Claims *)

\* C1: per channel, the events the handler dequeues followed by those still
\* queued carry no event twice, carry two publishes of which one had returned
\* before the other began in that order, and carry every completed publish
\* that began while the channel was in the subscriber set and still is.
C1_FifoPerChannel ==
  \A c \in Channels :
    LET h == Hist(c)
    IN  /\ \A i, j \in 1..Len(h) : i < j => h[i] # h[j]
        /\ \A i, j \in 1..Len(h) : i < j => h[j] \notin pub[h[i]].hb
        /\ \A e \in Events :
             (Phase(e) = "done" /\ InThroughout(e, c)) => Holds(c, e)

\* C1 witness: a handler has dequeued two publishes, the first returned before
\* the second began, while another channel was registered too.
C1_Witness ==
  \E c \in Channels :
    /\ Len(out[c]) >= 3
    /\ out[c][2] \in pub[out[c][3]].hb
    /\ Cardinality(pub[out[c][3]].in) >= 2

\* C2 (as claimed): once a handler has terminated, on whatever exit path, the
\* subscriber set does not contain its channel.
C2_RemovedOnEveryExit ==
  \A c \in Channels : pc[c] = "done" => c \notin subscribers

\* C3 (as claimed): the subscriber set contains only channels whose stream
\* connection is currently open.
C3_OnlyOpenConnections ==
  \A c \in subscribers : conn[c] = "open" /\ pc[c] # "done"

\* C5: the first item a stream yields is the connected item, and an event
\* whose publish copied the subscriber set before the channel was added is
\* neither yielded by nor queued for that stream.
C5_ConnectedFirstNoReplay ==
  \A c \in Channels :
    /\ out[c] # <<>> => out[c][1] = Connected
    /\ \A e \in Events :
         (Phase(e) \in {"snapped", "done"} /\ c > pub[e].nsnap) => ~Holds(c, e)

\* C5 witness: a stream opened after a publish had completed has yielded the
\* connected item and then a later event.
C5_Witness ==
  \E c \in Channels, e \in Events :
    /\ Phase(e) = "done" /\ c > pub[e].nsnap
    /\ Len(out[c]) >= 2 /\ out[c][1] = Connected /\ out[c][2] # Connected

\* C7: a completed publish has reached every channel that was in the set from
\* its beginning to now exactly once; no channel, registered during the
\* publish or not, carries an event twice; and a copy of the set holds only
\* channels sse_events has added.
C7_AtomicRegistration ==
  /\ \A e \in Events, c \in Channels :
       /\ Count(e, Hist(c)) <= 1
       /\ (Phase(e) = "done" /\ InThroughout(e, c)) => Count(e, Hist(c)) = 1
  /\ \A t \in Threads : tsnap[t] \subseteq Registered

\* C7 witness: a completed publish reached a channel present throughout and
\* also a channel that was added after the publish began.
C7_Witness ==
  \E e \in Events, c, d \in Channels :
    /\ Phase(e) = "done"
    /\ InThroughout(e, c) /\ Count(e, Hist(c)) = 1
    /\ d > pub[e].nreg /\ d \in Registered /\ Count(e, Hist(d)) = 1

\* C9: a publish that began after a channel had been removed puts nothing on
\* that channel, reaches every channel that stays registered, and raises
\* nothing.
C9_NoDeliveryAfterUnregister ==
  /\ \A e \in Events, c \in Channels :
       /\ GoneAtStart(e, c) => ~Holds(c, e)
       /\ (Phase(e) = "done" /\ InThroughout(e, c)) => Holds(c, e)
  /\ \A t \in Threads : ~traised[t]

\* C9 witness: a publish began after one channel was removed, completed, and
\* reached another channel.
C9_Witness ==
  \E e \in Events, c, d \in Channels :
    /\ Phase(e) = "done"
    /\ GoneAtStart(e, c) /\ c \notin subscribers /\ pc[c] = "done"
    /\ InThroughout(e, d) /\ Holds(d, e)

\* C6: when every thread has finished its publishes, each channel that was
\* registered throughout carries every event of every thread exactly once, and
\* carries two events of one thread in the order that thread published them.
C6_ConcurrentFanout ==
  (\A t \in Threads : tcount[t] = MaxPub) =>
    \A c \in Channels :
      (\A e \in Events : InThroughout(e, c)) =>
        LET h == Hist(c)
        IN  /\ \A e \in Events : Count(e, h) = 1
            /\ \A i, j \in 1..Len(h) :
                 (i < j /\ ThreadOf(h[i]) = ThreadOf(h[j]))
                   => RankOf(h[i]) < RankOf(h[j])

\* C6 witness: two threads have finished, three channels were registered
\* throughout, and two of them carry the events in different orders.
C6_Witness ==
  /\ NumThreads >= 2 /\ \A t \in Threads : tcount[t] = MaxPub
  /\ Cardinality({c \in Channels : \A e \in Events : InThroughout(e, c)}) >= 3
  /\ \E c, d \in Channels : Hist(c) # Hist(d)

\* C4 (as claimed): a handler blocked in q.get() whose connection has been
\* closed eventually terminates, whether or not another event is published.
C4_CloseUnblocksGet ==
  \A c \in Channels : (pc[c] = "get" /\ conn[c] = "closed") ~> (pc[c] = "done")

\* C8: once a publish has begun while a channel is registered and its
\* connection open, the handler eventually yields that event, unless the
\* connection is closed first.
C8_EventuallyYielded ==
  \A c \in Channels, e \in Events :
    (Phase(e) = "started" /\ c \in subscribers /\ conn[c] = "open")
      ~> (Count(e, out[c]) = 1 \/ conn[c] # "open")

\* C8 witness: a handler has yielded an event published while its channel was
\* registered, and its connection is still open.
C8_Witness ==
  \E c \in Channels, e \in Events :
    /\ c \in pub[e].in /\ conn[c] = "open"
    /\ Count(e, out[c]) = 1

\* C10: removing a channel never raises, and after a second removal of the
\* same channel the subscriber set is what it was after the first.
C10_DiscardIdempotent ==
  /\ probe.step >= 1 => (~probe.raised /\ probe.chan \notin subscribers)
  /\ probe.step = 2 => subscribers = probe.after

\* C10 witness: a channel that was in the set has been removed twice while
\* other channels stay registered.
C10_Witness ==
  /\ probe.step = 2
  /\ pc[probe.chan] # "done"
  /\ subscribers # {}

\* C11: when a publish has returned, no exception has left broadcast_event,
\* and every channel of its snapshot carries the event exactly once unless
\* the put on that very channel failed, in which case it carries none: a
\* failed put costs the other channels nothing.
C11_FailureIsolated ==
  /\ \A t \in Threads : ~traised[t]
  /\ \A e \in Events : \A c \in Channels :
       (Phase(e) = "done" /\ c \in pub[e].in) =>
         Count(e, Hist(c)) = (IF <<e, c>> \in failed THEN 0 ELSE 1)

\* C11 witness: a publish has returned whose put failed on one channel and
\* which two other channels carry.
C11_Witness ==
  \E e \in Events : \E c \in Channels :
    /\ Phase(e) = "done"
    /\ <<e, c>> \in failed
    /\ Cardinality({d \in Channels \ {c} : Holds(d, e)}) >= 2

\* C12: with no assumption on the handlers, a thread inside broadcast_event
\* always has a step it can take, every publish that has begun returns, and
\* a handler that has started and not ended is without a step of its own only
\* in q.get() on an empty queue.
C12_PublishNeverWaits ==
  /\ [](\A t \in Threads :
          /\ tpc[t] = "snap" => ENABLED Snapshot(t)
          /\ tpc[t] = "loop" => ENABLED (\E c \in Channels : Put(t, c)))
  /\ \A e \in Events : (Phase(e) \in {"started", "snapped"}) ~> (Phase(e) = "done")
  /\ [](\A c \in Channels :
          (/\ pc[c] \in {"reg", "yield", "get"}
           /\ ~ENABLED (StreamHello(c) \/ Resume(c) \/ Wake(c)
                          \/ CloseStream(c)))
            => (pc[c] = "get" /\ q[c] = <<>>))

\* C12 witness: a publish has returned that put its event behind an
\* undelivered one on a queue whose handler has ended and will never dequeue.
C12_Witness ==
  \E e \in Events : \E c \in Channels :
    /\ Phase(e) = "done"
    /\ pc[c] = "done"
    /\ Len(q[c]) >= 2
    /\ q[c][Len(q[c])] = e

\* C18: a step of broadcast_event leaves the subscriber set as it was; a step
\* that adds a channel to the set or ends its handler leaves the queue of
\* every other channel as it was; and a queue changes only by a put of
\* broadcast_event appending the event being published, or by the get of its
\* own handler taking its head.
C18_FrameConditions ==
  [][/\ (\E t \in Threads : broadcast_event(t)) => subscribers' = subscribers
     /\ \A c \in Channels :
          (sse_events(c) \/ CloseStream(c) \/ CloseUnstarted(c)) =>
            \A d \in Channels \ {c} : q'[d] = q[d]
     /\ \A c \in Channels :
          \/ q'[c] = q[c]
          \/ \E t \in Threads :
               Put(t, c) /\ q'[c] = Append(q[c], Current(t))
          \/ (Resume(c) \/ Wake(c)) /\ q[c] # <<>> /\ q'[c] = Tail(q[c])
    ]_vars

\* C18 witness: a connection was opened after a completed publish had copied
\* the set and has ended, while the queue of another channel holds that
\* event next to a later one.
C18_Witness ==
  \E c, d \in Channels : \E e \in Events :
    /\ c # d
    /\ Phase(e) = "done"
    /\ pub[e].nsnap < c
    /\ pc[c] = "done"
    /\ c \notin subscribers
    /\ Len(q[d]) >= 2
    /\ q[d][1] = e

\* The events the request handled last has published.
PublishedByLast == SubSeq(log, last.first + 1, Len(log))

\* C13: a create_outbound_call request whose calls.create returned, at the
\* first attempt or at the retry, has published one event, a call_initiated,
\* and answers 200; a request answered with an error has published nothing.
C13_CallInitiatedOncePerPlacedCall ==
  last.handler = "connect" =>
    /\ last.placed >= 1 =>
         /\ Len(PublishedByLast) = 1
         /\ PublishedByLast[1].event = "call_initiated"
         /\ last.status = 200
    /\ last.status # 200 => (PublishedByLast = <<>> /\ last.placed = 0)
    /\ last.status \in {200, 400, 500}

\* C13 witness: a request whose first calls.create was rejected with code
\* 20003 and whose retry placed the call has published its one event, and the
\* open stream connection has it.
C13_Witness ==
  /\ last.handler = "connect"
  /\ last.recursed = 1
  /\ last.placed = 1
  /\ Len(PublishedByLast) = 1
  /\ Holds(1, Len(log))

\* The value of field k of the form of the request handled last, or absent.
LastField(k, absent) == IF k \in DOMAIN last.form THEN last.form[k] ELSE absent

\* C14: a status callback has published exactly one event, a call_status whose
\* payload has the five fields CallSid, CallStatus, To, From, Timestamp with
\* the values of the form (None for a missing one); an inbound-call webhook
\* for A or B has published exactly one event, an incoming_call whose payload
\* has to, from and sid from the form fields To, From and CallSid (empty for a
\* missing one) and which equal to "A" or "B".
C14_WebhookPublishesItsForm ==
  /\ last.handler = "status_callback" =>
       /\ Len(PublishedByLast) = 1
       /\ PublishedByLast[1].event = "call_status"
       /\ DOMAIN PublishedByLast[1].payload = FormFields
       /\ \A k \in FormFields :
            PublishedByLast[1].payload[k] = LastField(k, None)
  /\ last.handler \in {"inbound_a", "inbound_b"} =>
       /\ Len(PublishedByLast) = 1
       /\ PublishedByLast[1].event = "incoming_call"
       /\ PublishedByLast[1].payload =
            [to |-> LastField("To", ""),
             from |-> LastField("From", ""),
             sid |-> LastField("CallSid", ""),
             which |-> IF last.handler = "inbound_a" THEN "A" ELSE "B"]

\* C14 witness: a status callback with a complete form has been handled after
\* an inbound call to B whose form had the two numbers and no CallSid, and
\* the open stream connection has delivered both events.
C14_Witness ==
  /\ last.handler = "status_callback"
  /\ DOMAIN last.form = FormFields
  /\ Len(log) = 2
  /\ log[1].event = "incoming_call"
  /\ log[1].payload.which = "B"
  /\ log[1].payload.sid = ""
  /\ log[1].payload.from = FormValue.From
  /\ out[1] = <<Connected, 1, 2>>

\* C15 (as claimed): once current_method is "api_key" while both clients
\* exist, get_client returns the fallback client and get_auth_method reports
\* "api_key", and every API call a request makes after its switch goes
\* through the fallback client.
C15_SwitchSelectsFallback ==
  /\ (/\ twilio_manager.primary_client
      /\ twilio_manager.fallback_client
      /\ twilio_manager.current_method = "api_key") =>
       /\ get_client(twilio_manager) = "fallback"
       /\ get_auth_method(twilio_manager) = "api_key"
  /\ (last.handler \in {"health", "connect"}
        /\ last.recursed + last.trecursed >= 1) =>
       last.used[Len(last.used)] = "fallback"

\* C16: whatever the carrier answers, a request has ended within the answers
\* it was given, test_connection has called itself at most once in any of
\* its runs and create_outbound_call at most once in the request, and after
\* a request that did recurse current_method is "api_key".
C16_RetriesTerminate ==
  last.handler \in {"health", "connect"} =>
    /\ ~last.cut
    /\ last.trecursed <= 1
    /\ last.recursed <= 1
    /\ Len(last.used) <= MaxCarrierCalls
    /\ (last.recursed + last.trecursed >= 1) =>
         twilio_manager.current_method = "api_key"

\* C16 witness: a connect request whose calls.create was rejected with code
\* 20003 at the first attempt and again at the retry has recursed once and
\* ended with status 500.
C16_Witness ==
  /\ last.handler = "connect"
  /\ last.recursed = 1
  /\ last.rejected >= 2
  /\ last.status = 500

\* The response of the request handled last has a Dial to `number`.
LastDials(number) ==
  \E i \in 1..Len(last.response) :
    /\ last.response[i].verb = "Dial"
    /\ last.response[i].number = number

LastSaysNoDestination ==
  \E i \in 1..Len(last.response) : last.response[i] = Say(NoDestination)

\* C17 (as claimed): the response of inbound_a has a Dial to TWILIO_NUMBER_B
\* whenever that number is configured, the response of inbound_b has a Dial
\* to TWILIO_NUMBER_A whenever that number is configured, and each has the
\* "No destination configured" message exactly when the other number is not
\* configured.
C17_SymmetricForwarding ==
  /\ last.handler = "inbound_a" =>
       /\ environ.TWILIO_NUMBER_B # "" => LastDials(environ.TWILIO_NUMBER_B)
       /\ LastSaysNoDestination <=> environ.TWILIO_NUMBER_B = ""
  /\ last.handler = "inbound_b" =>
       /\ environ.TWILIO_NUMBER_A # "" => LastDials(environ.TWILIO_NUMBER_A)
       /\ LastSaysNoDestination <=> environ.TWILIO_NUMBER_A = ""

\* The kinds the callers of broadcast_event pass.
PublishedKinds == {"call_initiated", "incoming_call", "call_status"}

\* Item x of a stream is a connected event: the hello item, or a published
\* data object of that kind.
IsConnected(x) ==
  x = Connected \/ (x \in 1..Len(log) /\ log[x].event = "connected")

\* The connected items connection c has delivered.
ConnectedItems(c) ==
  Cardinality({i \in 1..Len(out[c]) : IsConnected(out[c][i])})

====
